---- MODULE Spec2Model ----
(***************************************************************************)
(* Model of the sales dashboard: the App component (record store, region   *)
(* and category selection, language / theme / currency / exchange rates),  *)
(* the KPI cards, the chart view models and the DataGrid (date range,      *)
(* sort, CSV export).                                                      *)
(*                                                                         *)
(* Numbers: JavaScript numbers are modelled as exact rationals             *)
(* [n |-> numerator, d |-> denominator], d > 0, in lowest terms; d = 0     *)
(* stands for the non-finite values (n = 0: NaN, n = 1: +Infinity,         *)
(* n = -1: -Infinity).  Timestamps are integers in milliseconds since the  *)
(* epoch.                                                                  *)
(***************************************************************************)
EXTENDS Integers, Sequences, FiniteSets, TLC

VARIABLES
    rawData,             \* App: the Record Store
    loading,             \* App: busy flag of initial load / refresh
    processingFile,      \* App: busy flag of upload
    selectedRegions,     \* App: list of selected regions
    selectedCategories,  \* App: list of selected categories
    activeTab,           \* App: "charts" or "data"
    language,            \* App: "pt", "en", "es"
    theme,               \* App: "light", "dark"
    currency,            \* App: display currency
    rates,               \* App: exchange rate table
    filteredData,        \* App: memoised filtered set (the array handed to the views)
    conversionFactor,    \* App: memoised conversion factor
    sortConfig,          \* DataGrid: NoSort or [key, direction]
    startDate,           \* DataGrid: NoDate or the chosen start day
    endDate,             \* DataGrid: NoDate or the chosen end day
    sortedData,          \* DataGrid: the table's ordered set (<<>> while not mounted)
    download,            \* the file handed to the browser by the step just taken
    tz,                  \* environment: offset of local time from UTC, in ms
    store,               \* localStorage entry 'dashboard_data_db'
    pcLoad,              \* initial load: "pending" or "done"
    pcRefresh,           \* refresh timer: "idle" or "pending"
    pcUpload,            \* upload: "idle" or "parsing"
    fileInput,           \* value of the file input: "" or the chosen "file"
    alerts,              \* the alerts raised by the step just taken
    showExportMenu,      \* App: the export menu is open
    activeChannel,       \* ExportMenu: "none" (null), "whatsapp", "email", "download"
    generating,          \* ExportMenu: busy flag of processAndShare
    pcExport,            \* processAndShare: where the call is, its format and channel
    linkTimers,          \* pending setTimeout callbacks that open a share link
    effects              \* share, link and log effects of the step just taken

vars == << rawData, loading, processingFile, selectedRegions, selectedCategories,
           activeTab, language, theme, currency, rates, filteredData,
           conversionFactor, sortConfig, startDate, endDate, sortedData,
           download, tz, store, pcLoad, pcRefresh, pcUpload, fileInput, alerts,
           showExportMenu, activeChannel, generating, pcExport, linkTimers, effects >>

-----------------------------------------------------------------------------
(* Bounds of the model *)

\* longest record set (stands for the hundreds of records of a real set)
MaxRecords == 3
\* number of records of a generated mock set (stands for generateMockData(500))
MockCount == 2
\* date inputs range over the days 0 .. MaxDay after the epoch
MaxDay == 2
\* most data rows of an uploaded sheet
MaxRows == 2
\* most share links waiting for their timeout when an export is started
MaxTimers == 2
\* number of rows the table paints (stands for the 100 of sortedData.slice(0, 100))
DisplayLimit == 2

-----------------------------------------------------------------------------
(* Numbers *)

Abs(x) == IF x < 0 THEN -x ELSE x

Sign(x) == IF x < 0 THEN -1 ELSE IF x > 0 THEN 1 ELSE 0

RECURSIVE GCD(_, _)
GCD(a, b) == IF b = 0 THEN a ELSE GCD(b, a % b)

\* the number n / d
Rat(n, d) ==
    IF d = 0 THEN [n |-> Sign(n), d |-> 0]
    ELSE LET g == GCD(Abs(n), Abs(d))
             s == Sign(d)
         IN  [n |-> (s * n) \div g, d |-> (s * d) \div g]

NaN == [n |-> 0, d |-> 0]

IsNaN(x) == x.d = 0 /\ x.n = 0

IsFinite(x) == x.d > 0

RatInt(i) == [n |-> i, d |-> 1]

\* x * y
RatMul(x, y) ==
    IF IsNaN(x) \/ IsNaN(y) THEN NaN
    ELSE Rat(x.n * y.n, x.d * y.d)

\* x + y, for finite x and y
RatAdd(x, y) == Rat(x.n * y.d + y.n * x.d, x.d * y.d)

\* x / y
RatDiv(x, y) ==
    IF IsNaN(x) \/ IsNaN(y) THEN NaN
    ELSE IF y.d = 0 THEN (IF x.d = 0 THEN NaN ELSE RatInt(0))
    ELSE IF y.n = 0 THEN Rat(Sign(x.n), 0)
    ELSE IF x.d = 0 THEN Rat(x.n * Sign(y.n), 0)
    ELSE Rat(x.n * y.d, x.d * y.n)

\* x < y (false when either is NaN)
RatLess(x, y) ==
    IF IsNaN(x) \/ IsNaN(y) THEN FALSE
    ELSE IF x.d = 0 /\ y.d = 0 THEN x.n < y.n
    ELSE IF x.d = 0 THEN x.n < 0
    ELSE IF y.d = 0 THEN y.n > 0
    ELSE x.n * y.d < y.n * x.d

\* Math.max(x, y)
MathMax(x, y) ==
    IF IsNaN(x) \/ IsNaN(y) THEN NaN
    ELSE IF RatLess(x, y) THEN y ELSE x

\* 10^k
RECURSIVE Pow10(_)
Pow10(k) == IF k = 0 THEN 1 ELSE 10 * Pow10(k - 1)

\* Rounding of a finite number to `digits` decimals, half away from zero,
\* as done by Number.prototype.toFixed and by Intl.NumberFormat: the result
\* is the integer count of units of 10^-digits.
RoundUnits(x, digits) ==
    LET num == Abs(x.n) * Pow10(digits)
    IN  Sign(x.n) * ((2 * num + x.d) \div (2 * x.d))

\* (v).toFixed(2): a decimal text with exactly two fraction digits
toFixed2(x) == [digits |-> 2, units |-> RoundUnits(x, 2)]

-----------------------------------------------------------------------------
(* Time *)

DayMs == 24 * 60 * 60 * 1000

NoDate == -1

\* offsets of local time from UTC: America/Sao_Paulo, UTC, Europe/Helsinki (winter)
TimeZones == { -(3 * 60 * 60 * 1000), 0, 2 * 60 * 60 * 1000 }

\* values of an <input type="date">: '' or a day 'YYYY-MM-DD'
DateInputs == {NoDate} \cup (0 .. MaxDay)

\* new Date('YYYY-MM-DD').getTime(): a date-only text is read as UTC midnight
ParseDateOnly(day) == day * DayMs

\* Date.prototype.setHours(h, m, s, ms): replaces the local time of day of the
\* instant ts, keeping its local calendar day, and returns the new timestamp
setHours(ts, h, m, s, ms, offset) ==
    LET localDay == (ts + offset) \div DayMs
    IN  localDay * DayMs + ((h * 60 + m) * 60 + s) * 1000 + ms - offset

-----------------------------------------------------------------------------
(* Records *)

CATEGORIES == {"Electronics", "Food"}
REGIONS == {"North", "South"}

\* a SaleRecord
Rec(id, date, category, region, product, quantity, sales, profit) ==
    [id |-> id, date |-> date, category |-> category, region |-> region,
     product |-> product, quantity |-> quantity, sales |-> sales, profit |-> profit]

\* The records the model builds record sets from.  Records 1 to 3 have the
\* shape of generated records, record 4 the shape of an uploaded row with
\* missing cells ('Unknown' region and product, zero numbers).
RecordPool ==
    { Rec(1, DayMs - 1, "Electronics", "North", "Product 1", 2, 4, 1),
      Rec(2, DayMs,     "Food",        "South", "Product 2", 1, 2, -1),
      Rec(3, DayMs,     "Electronics", "South", "Product 1", 3, 4, 2),
      Rec(4, 2 * DayMs, "Food",        "Unknown", "Unknown", 0, 0, 0) }

SeqsUpTo(S, n) == UNION { [1 .. k -> S] : k \in 0 .. n }

\* records.sort((a, b) => a.date.getTime() - b.date.getTime()) has been applied
SortedByDate(s) == \A i \in 1 .. Len(s) - 1 : s[i].date <= s[i + 1].date

DistinctIds(s) == \A i, j \in 1 .. Len(s) : i # j => s[i].id # s[j].id

\* record sets as produced by generation or upload: unique ids, ascending dates
DataSets ==
    { s \in SeqsUpTo(RecordPool, MaxRecords) : DistinctIds(s) /\ SortedByDate(s) }

\* generateMockData(count): count records over CATEGORIES and REGIONS with
\* positive quantity and sales, sorted by date
generateMockData(count) ==
    { s \in DataSets :
        /\ Len(s) = count
        /\ \A i \in 1 .. Len(s) :
              /\ s[i].category \in CATEGORIES
              /\ s[i].region \in REGIONS
              /\ s[i].quantity >= 1 }

\* array.includes(x)
Includes(list, x) == \E i \in 1 .. Len(list) : list[i] = x

\* filterData with the two matches joined by || instead of &&
filterData_eitherMatch(data, regions, categories) ==
    LET keep(item) ==
            \/ Len(regions) = 0 \/ Includes(regions, item.region)
            \/ Len(categories) = 0 \/ Includes(categories, item.category)
    IN  SelectSeq(data, keep)

\* filterData with a scan that starts at the second record
filterData_skipFirst(data, regions, categories) ==
    LET keep(item) ==
            /\ Len(regions) = 0 \/ Includes(regions, item.region)
            /\ Len(categories) = 0 \/ Includes(categories, item.category)
    IN  IF data = << >> THEN << >> ELSE SelectSeq(Tail(data), keep)

filterData(data, regions, categories) ==
    LET keep(item) ==
            LET regionMatch == Len(regions) = 0 \/ Includes(regions, item.region)
                categoryMatch == Len(categories) = 0 \/ Includes(categories, item.category)
            IN  regionMatch /\ categoryMatch
    IN  SelectSeq(data, keep)


\* Array.from(new Set(data.map(d => d[field]))).filter(Boolean): the distinct
\* non-empty values of a field (the filter buttons rendered by App)
uniqueValues(data, field) ==
    { data[i][field] : i \in 1 .. Len(data) } \ {""}

\* toggleSelection(item, currentList, setter): the new list
toggleSelection(item, currentList) ==
    IF Includes(currentList, item)
    THEN LET differs(i) == i # item IN SelectSeq(currentList, differs)
    ELSE Append(currentList, item)

-----------------------------------------------------------------------------
(* Settings: language, currency, exchange rates *)

Languages == {"pt", "en", "es"}
Currencies == {"BRL", "USD", "ARS", "PYG", "UYU"}
RateCurrencies == {"USD", "ARS", "PYG", "UYU"}

\* useState({ USD: 5.75, ARS: 215.00, PYG: 1400.00, UYU: 7.60 })
InitialRates ==
    [c \in RateCurrencies |->
        CASE c = "USD" -> Rat(575, 100)
          [] c = "ARS" -> Rat(215, 1)
          [] c = "PYG" -> Rat(1400, 1)
          [] c = "UYU" -> Rat(760, 100)]

\* the literal 0.0001 of the rate input handler
MinRate == Rat(1, 10000)

\* texts an <input type="number"> can hand to the handler: '' for an empty or
\* non-numeric entry, otherwise the text of a finite number
RateInputs == {"", "-5", "0", "0.00005", "0.0001", "2"}

\* parseFloat(text)
parseFloat(text) ==
    CASE text = "-5"      -> Rat(-5, 1)
      [] text = "0"       -> Rat(0, 1)
      [] text = "0.00005" -> Rat(5, 100000)
      [] text = "0.0001"  -> Rat(1, 10000)
      [] text = "2"       -> Rat(2, 1)
      [] OTHER            -> NaN

\* x || 0 : NaN and 0 are falsy
OrZero(x) == IF IsNaN(x) \/ (x.d # 0 /\ x.n = 0) THEN RatInt(0) ELSE x

\* the rate clamp with a minimum of 0
clampRate_zeroMinimum(text) == MathMax(RatInt(0), OrZero(parseFloat(text)))

\* Math.max(0.0001, parseFloat(e.target.value) || 0)
clampRate(text) == MathMax(MinRate, OrZero(parseFloat(text)))

\* the conversion factor with the USD rate used like the other rates
conversionFactorOf_direct(cur, rts) ==
    IF cur = "BRL" THEN RatInt(1) ELSE rts[cur]

\* the body of the conversionFactor memo
conversionFactorOf(cur, rts) ==
    IF cur = "BRL" THEN RatInt(1)
    ELSE IF cur = "USD" THEN RatDiv(RatInt(1), rts["USD"])
    ELSE rts[cur]

\* the effect without the test of the current currency under 'es'
languageEffect_esAlwaysARS(lang, cur) ==
    IF lang = "pt" THEN "BRL"
    ELSE IF lang = "en" THEN "USD"
    ELSE "ARS"

\* the body of the effect run after a change of language: the currency it sets
languageEffect(lang, cur) ==
    IF lang = "pt" THEN "BRL"
    ELSE IF lang = "en" THEN "USD"
    ELSE IF cur # "ARS" /\ cur # "PYG" /\ cur # "UYU" THEN "ARS"
    ELSE cur

\* the locale resolved from the currency by KPICards, ChartsSection and DataGrid
resolveLocale(cur) ==
    CASE cur = "BRL" -> "pt-BR"
      [] cur = "ARS" -> "es-AR"
      [] cur = "PYG" -> "es-PY"
      [] cur = "UYU" -> "es-UY"
      [] OTHER       -> "en-US"

\* formatCurrency(value, currency, locale): the amount rounded to the fraction
\* digits of the format (0 for PYG, 2 otherwise), as a count of minor units
formatCurrency(value, cur, locale) ==
    LET digits == IF cur = "PYG" THEN 0 ELSE 2
    IN  [locale |-> locale, currency |-> cur, digits |-> digits,
         units |-> IF IsFinite(value) THEN RoundUnits(value, digits) ELSE 0,
         finite |-> IsFinite(value)]

-----------------------------------------------------------------------------
(* Aggregation: KPI metrics *)

\* array.reduce((sum, item) => sum + item[field], 0)
RECURSIVE SumField(_, _)
SumField(data, field) ==
    IF data = << >> THEN 0
    ELSE SumField(SubSeq(data, 1, Len(data) - 1), field) + data[Len(data)][field]

\* the metrics with the average computed without the guard for an empty set
metricsOf_unguarded(data) ==
    [ totalSales    |-> SumField(data, "sales"),
      totalQuantity |-> SumField(data, "quantity"),
      totalProfit   |-> SumField(data, "profit"),
      avgTicket     |-> RatDiv(RatInt(SumField(data, "sales")), RatInt(Len(data))) ]

\* the body of the metrics memo
metricsOf(data) ==
    [ totalSales    |-> SumField(data, "sales"),
      totalQuantity |-> SumField(data, "quantity"),
      totalProfit   |-> SumField(data, "profit"),
      avgTicket     |-> IF Len(data) > 0
                        THEN RatDiv(RatInt(SumField(data, "sales")), RatInt(Len(data)))
                        ELSE RatInt(0) ]

\* displayValue applied to a value that was already converted
displayValue_twice(val, factor, cur) ==
    formatCurrency(RatMul(RatMul(val, factor), factor), cur, resolveLocale(cur))

\* KPICards: displayValue(val) = formatCurrency(val * conversionFactor, ...)
displayValue(val, factor, cur) ==
    formatCurrency(RatMul(val, factor), cur, resolveLocale(cur))

\* KPICards: the four cards; the item count is shown without conversion
KPICards(m, factor, cur) ==
    [ revenue |-> displayValue(RatInt(m.totalSales), factor, cur),
      items   |-> m.totalQuantity,
      ticket  |-> displayValue(m.avgTicket, factor, cur),
      profit  |-> displayValue(RatInt(m.totalProfit), factor, cur) ]


-----------------------------------------------------------------------------
(* Localised labels and text order *)

\* getDataTranslation(value, lang): the label shown for a category or region;
\* a value without a translation is shown as it is
getDataTranslation(value, lang) ==
    IF lang = "pt" THEN
        CASE value = "Electronics" -> "Eletronicos"
          [] value = "Food"        -> "Alimentos"
          [] value = "North"       -> "Norte"
          [] value = "South"       -> "Sul"
          [] OTHER                 -> value
    ELSE IF lang = "es" THEN
        CASE value = "Electronics" -> "Electronica"
          [] value = "Food"        -> "Alimentos"
          [] value = "North"       -> "Norte"
          [] value = "South"       -> "Sur"
          [] OTHER                 -> value
    ELSE value

\* the texts of the model in the order of the JavaScript < on strings
TextOrder ==
    << "Alimentos", "Electronica", "Electronics", "Eletronicos", "Food", "Norte",
       "North", "Product 1", "Product 2", "South", "Sul", "Sur", "Uncategorized",
       "Unknown" >>

TextRank(text) == CHOOSE i \in 1 .. Len(TextOrder) : TextOrder[i] = text

-----------------------------------------------------------------------------
(* Arrays *)

\* a sort that puts elements that compare equal in the reverse of their
\* incoming order
ArraySort_tiesReversed(s, before) ==
    LET n == Len(s)
        pos(i) ==
            1 + Cardinality({ j \in 1 .. n : before[j, i] })
              + Cardinality({ j \in i + 1 .. n : ~ before[j, i] /\ ~ before[i, j] })
    IN  [ k \in 1 .. n |-> s[CHOOSE i \in 1 .. n : pos(i) = k] ]

\* Array.prototype.sort(compare) for a consistent comparator, where
\* before[i, j] tells whether compare(s[i], s[j]) < 0: the stable ordering of
\* s.  An element goes after all elements that compare before it and after
\* the earlier elements that compare equal to it.
ArraySort(s, before) ==
    LET n == Len(s)
        pos(i) ==
            1 + Cardinality({ j \in 1 .. n : before[j, i] })
              + Cardinality({ j \in 1 .. i - 1 : ~ before[j, i] /\ ~ before[i, j] })
    IN  [ k \in 1 .. n |-> s[CHOOSE i \in 1 .. n : pos(i) = k] ]

-----------------------------------------------------------------------------
(* Upload ingestion *)

\* getTime() of an Invalid Date is NaN: a value outside the timestamps of the
\* model stands for it
InvalidTime == -2147483647

\* a cell of the date column: absent, a number or a string
Cell(kind, num, text) == [kind |-> kind, num |-> num, text |-> text]

\* the date cells of the uploaded sheets: no cell, the numbers 0 and 25570,
\* an ISO date, a text that is no date and the empty text
DateCells ==
    { Cell("absent", 0, ""), Cell("number", 0, ""), Cell("number", 25570, ""),
      Cell("string", 0, "1970-01-02"), Cell("string", 0, "abc"), Cell("string", 0, "") }

\* a data row: its date cell, and whether its other cells are filled (a row
\* without any cell is not a row of the sheet)
Rows ==
    { row \in [date : DateCells, filled : BOOLEAN] :
        ~ row.filled => row.date = Cell("number", 25570, "") }

Sheets == UNION { [1 .. k -> Rows] : k \in 0 .. MaxRows }

\* the time of the parse, new Date()
NowTimes == { 2 * DayMs + 7 }

\* new Date(text).getTime() for the texts of the model
DateParse(text) ==
    IF text = "1970-01-02" THEN DayMs ELSE InvalidTime

\* if (rawDate): absent cells, 0 and '' are falsy
Truthy(cell) ==
    /\ cell.kind # "absent"
    /\ cell.kind = "number" => cell.num # 0
    /\ cell.kind = "string" => cell.text # ""

\* the date of a row: now unless the cell is truthy, then the serial day
\* number counted from day 25569 or the parsed text
parseDateCell(cell, now) ==
    IF ~ Truthy(cell) THEN now
    ELSE IF cell.kind = "number" THEN (cell.num - 25569) * 86400 * 1000
    ELSE DateParse(cell.text)

\* the record made of row i: missing cells become 'Uncategorized', 'Unknown'
\* and 0
parseRow(i, row, now) ==
    IF row.filled
    THEN Rec(i, parseDateCell(row.date, now), "Food", "South", "Product 2", 1, 2, -1)
    ELSE Rec(i, parseDateCell(row.date, now), "Uncategorized", "Unknown", "Unknown", 0, 0, 0)

\* the orders of a list
Orders(list) ==
    LET n == Len(list)
    IN  { [ k \in 1 .. n |-> list[p[k]] ] :
            p \in { q \in [1 .. n -> 1 .. n] : \A a, b \in 1 .. n : a # b => q[a] # q[b] } }

\* parseUploadedFile(file): the record sets it can resolve with.  The records
\* are sorted by a.date.getTime() - b.date.getTime(); with an Invalid Date
\* among them the comparator yields NaN and the order is left to the engine.
parseUploadedFile(sheet, now) ==
    LET records == [ i \in 1 .. Len(sheet) |-> parseRow(i, sheet[i], now) ]
        before  == [ i, j \in 1 .. Len(records) |-> records[i].date < records[j].date ]
    IN  IF \A i \in 1 .. Len(records) : records[i].date # InvalidTime
        THEN { ArraySort(records, before) }
        ELSE Orders(records)

-----------------------------------------------------------------------------
(* Chart view models *)

\* the grouping with acc[key] = curr.sales: a later record replaces the sum
RECURSIVE GroupSales_overwrite(_, _)
GroupSales_overwrite(keys, data) ==
    IF data = << >> THEN << >>
    ELSE LET n    == Len(data)
             acc  == GroupSales_overwrite(SubSeq(keys, 1, n - 1), SubSeq(data, 1, n - 1))
             key  == keys[n]
             curr == data[n]
         IN  IF \E i \in 1 .. Len(acc) : acc[i].name = key
             THEN [ i \in 1 .. Len(acc) |->
                      IF acc[i].name = key
                      THEN [name |-> key, value |-> curr.sales]
                      ELSE acc[i] ]
             ELSE Append(acc, [name |-> key, value |-> curr.sales])

\* data.reduce((acc, curr) => { acc[key] = (acc[key] || 0) + curr.sales }, {})
\* followed by Object.entries: one [name, value] entry per key, in the order
\* in which the keys first occur
RECURSIVE GroupSales(_, _)
GroupSales(keys, data) ==
    IF data = << >> THEN << >>
    ELSE LET n    == Len(data)
             acc  == GroupSales(SubSeq(keys, 1, n - 1), SubSeq(data, 1, n - 1))
             key  == keys[n]
             curr == data[n]
         IN  IF \E i \in 1 .. Len(acc) : acc[i].name = key
             THEN [ i \in 1 .. Len(acc) |->
                      IF acc[i].name = key
                      THEN [name |-> key, value |-> acc[i].value + curr.sales]
                      ELSE acc[i] ]
             ELSE Append(acc, [name |-> key, value |-> 0 + curr.sales])

FieldOf(data, field) == [ i \in 1 .. Len(data) |-> data[i][field] ]

\* curr.date.toISOString().split('T')[0]: the UTC calendar day of a timestamp
isoDay(ts) == ts \div DayMs

\* the categoryData memo sorted with a.value - b.value
categoryData_ascending(data, lang, factor) ==
    LET grouped == GroupSales(FieldOf(data, "category"), data)
        entries == [ i \in 1 .. Len(grouped) |->
                       [ name         |-> getDataTranslation(grouped[i].name, lang),
                         originalName |-> grouped[i].name,
                         value        |-> RatMul(RatInt(grouped[i].value), factor) ] ]
        before == [ i, j \in 1 .. Len(entries) |->
                      RatLess(entries[i].value, entries[j].value) ]
    IN  ArraySort(entries, before)

\* the body of the categoryData memo
categoryData(data, lang, factor) ==
    LET grouped == GroupSales(FieldOf(data, "category"), data)
        entries == [ i \in 1 .. Len(grouped) |->
                       [ name         |-> getDataTranslation(grouped[i].name, lang),
                         originalName |-> grouped[i].name,
                         value        |-> RatMul(RatInt(grouped[i].value), factor) ] ]
        before == [ i, j \in 1 .. Len(entries) |->
                      RatLess(entries[j].value, entries[i].value) ]
    IN  ArraySort(entries, before)

\* the body of the timeData memo
timeData(data, factor) ==
    LET grouped == GroupSales([ i \in 1 .. Len(data) |-> isoDay(data[i].date) ], data)
        entries == [ i \in 1 .. Len(grouped) |->
                       [ date  |-> grouped[i].name,
                         sales |-> RatMul(RatInt(grouped[i].value), factor) ] ]
        before == [ i, j \in 1 .. Len(entries) |->
                      ParseDateOnly(entries[i].date) < ParseDateOnly(entries[j].date) ]
    IN  ArraySort(entries, before)

\* Math.max(...values) of a non-empty set of sums
MaxOf(S) == CHOOSE m \in S : \A x \in S : x <= m

\* the body of the regionData memo
regionData(data, lang, factor) ==
    LET grouped == GroupSales(FieldOf(data, "region"), data)
        values  == { grouped[i].value : i \in 1 .. Len(grouped) }
    IN  [ i \in 1 .. Len(grouped) |->
            [ subject  |-> getDataTranslation(grouped[i].name, lang),
              A        |-> RatMul(RatInt(grouped[i].value), factor),
              fullMark |-> RatMul(RatInt(MaxOf(values)), factor) ] ]

\* the body of the scatterData memo
scatterData(data, lang, factor) ==
    [ i \in 1 .. Len(data) |->
        [ x        |-> RatMul(RatInt(data[i].sales), factor),
          y        |-> RatMul(RatInt(data[i].profit), factor),
          z        |-> data[i].quantity,
          category |-> getDataTranslation(data[i].category, lang),
          region   |-> getDataTranslation(data[i].region, lang) ] ]


-----------------------------------------------------------------------------
(* DataGrid *)

NoSort == [key |-> "none", direction |-> "none"]

SortKeys == {"date", "category", "region", "product", "sales", "quantity", "profit"}

\* handleSort without the toggle: the default direction on every click
handleSortConfig_noToggle(key, config) ==
    IF key \in {"sales", "profit", "quantity", "date"}
    THEN [key |-> key, direction |-> "desc"]
    ELSE [key |-> key, direction |-> "asc"]

\* handleSort(key): the sort specification it sets
handleSortConfig(key, config) ==
    IF config = NoSort \/ config.key # key
    THEN IF key \in {"sales", "profit", "quantity", "date"}
         THEN [key |-> key, direction |-> "desc"]
         ELSE [key |-> key, direction |-> "asc"]
    ELSE [key |-> key, direction |-> IF config.direction = "asc" THEN "desc" ELSE "asc"]

\* the start bound: new Date(startDate).setHours(0, 0, 0, 0)
startTsOf(day, offset) == setHours(ParseDateOnly(day), 0, 0, 0, 0, offset)

\* the end bound: new Date(endDate).setHours(23, 59, 59, 999)
endTsOf(day, offset) == setHours(ParseDateOnly(day), 23, 59, 59, 999, offset)

\* the body of the filteredByDateData memo; an absent bound is -Infinity or
\* Infinity and restricts nothing
filteredByDateData(data, start, end, offset) ==
    IF start = NoDate /\ end = NoDate THEN data
    ELSE LET keep(item) ==
                 LET itemTs == item.date
                 IN  /\ (start = NoDate \/ itemTs >= startTsOf(start, offset))
                     /\ (end = NoDate \/ itemTs <= endTsOf(end, offset))
         IN  SelectSeq(data, keep)

\* the comparison on the raw internal code of category and region
valueLess_rawCode(a, b, key, lang) ==
    IF key \in {"category", "region", "product"}
    THEN TextRank(a[key]) < TextRank(b[key])
    ELSE a[key] < b[key]

\* aValue < bValue for the values of the sort key: category and region by
\* their localised label, product by its text, the others as numbers
valueLess(a, b, key, lang) ==
    IF key = "category" \/ key = "region"
    THEN TextRank(getDataTranslation(a[key], lang)) < TextRank(getDataTranslation(b[key], lang))
    ELSE IF key = "product" THEN TextRank(a[key]) < TextRank(b[key])
    ELSE a[key] < b[key]

\* the sort applied to the array itself instead of a copy
sortedDataOf_inPlace(source, config, lang) ==
    IF config = NoSort THEN [source |-> source, result |-> source]
    ELSE LET before == [ i, j \in 1 .. Len(source) |->
                 IF config.direction = "asc"
                 THEN valueLess(source[i], source[j], config.key, lang)
                 ELSE valueLess(source[j], source[i], config.key, lang) ]
             sorted == ArraySort(source, before)
         IN  [source |-> sorted, result |-> sorted]

\* the sort with the direction left out of the comparator: always ascending
sortedDataOf_ignoreDirection(source, config, lang) ==
    IF config = NoSort THEN [source |-> source, result |-> source]
    ELSE LET before == [ i, j \in 1 .. Len(source) |->
                 valueLess(source[i], source[j], config.key, lang) ]
         IN  [source |-> source, result |-> ArraySort(source, before)]

\* the body of the sortedData memo.  source is the array the memo was given,
\* as it is after the call (the sort works on a copy of it); result is the
\* array returned.
sortedDataOf(source, config, lang) ==
    IF config = NoSort THEN [source |-> source, result |-> source]
    ELSE LET before == [ i, j \in 1 .. Len(source) |->
                 IF config.direction = "asc"
                 THEN valueLess(source[i], source[j], config.key, lang)
                 ELSE valueLess(source[j], source[i], config.key, lang) ]
         IN  [source |-> source, result |-> ArraySort(source, before)]

\* Math.max(...values) and Math.min(...values) of a non-empty set of numbers
MathMaxOf(S) == CHOOSE m \in S : \A x \in S : x <= m
MathMinOf(S) == CHOOSE m \in S : \A x \in S : m <= x

\* the heatmap bounds, computed at every render from the ordered set:
\* Math.max(...sortedData.map(d => d.sales), 0) and its like
maxSales(rows) == MathMaxOf({ rows[i].sales : i \in 1 .. Len(rows) } \cup {0})
minSales(rows) == MathMinOf({ rows[i].sales : i \in 1 .. Len(rows) } \cup {0})
\* the profit bound without the 0 among the arguments: Math.max() of no
\* argument is -Infinity, a value below every profit
maxProfit_noFloor(rows) ==
    IF Len(rows) = 0 THEN -2147483647
    ELSE MathMaxOf({ rows[i].profit : i \in 1 .. Len(rows) })
maxProfit(rows) == MathMaxOf({ rows[i].profit : i \in 1 .. Len(rows) } \cup {0})


\* formatDate(date, locale): the local calendar day of the timestamp
formatDate(ts, locale, offset) == [locale |-> locale, day |-> (ts + offset) \div DayMs]

\* getBackgroundColor, type 'positive': (value - min) / (max - min)
salesPercentage(value, min, max) == RatDiv(RatInt(value - min), RatInt(max - min))

\* getBackgroundColor, type 'diverging', value >= 0: value / max
profitPercentage(value, max) == RatDiv(RatInt(value), RatInt(max))

\* getBackgroundColor(value, min, max, type): the colour and the opacity of
\* the cell, baseOpacity + percentage * (maxOpacity - baseOpacity); a
\* negative profit has a fixed red
getBackgroundColor(value, min, max, type, thm) ==
    LET baseOpacity == IF thm = "dark" THEN Rat(3, 10) ELSE Rat(1, 10)
        maxOpacity  == IF thm = "dark" THEN Rat(7, 10) ELSE Rat(5, 10)
        span        == RatAdd(maxOpacity, RatMul(RatInt(-1), baseOpacity))
        opacity(percentage) ==
            IF IsFinite(percentage)
            THEN RatAdd(baseOpacity, RatMul(percentage, span))
            ELSE percentage
    IN  IF type = "positive"
        THEN [rgb |-> "blue", opacity |-> opacity(salesPercentage(value, min, max))]
        ELSE IF value < 0
        THEN [rgb |-> "red", opacity |-> RatAdd(baseOpacity, Rat(1, 10))]
        ELSE [rgb |-> "green", opacity |-> opacity(profitPercentage(value, max))]

\* the rows painted by the table: sales and profit converted and formatted,
\* quantity as stored
tableRows(rows, factor, cur) ==
    LET shown == SubSeq(rows, 1, IF Len(rows) < DisplayLimit THEN Len(rows) ELSE DisplayLimit)
    IN  [ i \in 1 .. Len(shown) |->
            [ id       |-> shown[i].id,
              sales    |-> formatCurrency(RatMul(RatInt(shown[i].sales), factor), cur, resolveLocale(cur)),
              quantity |-> shown[i].quantity,
              profit   |-> formatCurrency(RatMul(RatInt(shown[i].profit), factor), cur, resolveLocale(cur)) ] ]

NoDownload == [name |-> "", headers |-> << >>, rows |-> << >>]

\* the export of the rows the table paints instead of the whole ordered set
csvFile_displayedOnly(rows, factor, cur, lang, offset) ==
    LET shown == SubSeq(rows, 1, IF Len(rows) < DisplayLimit THEN Len(rows) ELSE DisplayLimit)
    IN  [ name    |-> cur,
          headers |-> << <<lang, "colDate">>, <<lang, "colCat">>, <<lang, "colProd">>,
                         <<lang, "colReg">>, <<lang, "colSales">>, <<lang, "colQty">>,
                         <<lang, "colProfit">> >>,
          rows    |-> [ i \in 1 .. Len(shown) |->
                         << formatDate(shown[i].date, resolveLocale(cur), offset),
                            getDataTranslation(shown[i].category, lang),
                            shown[i].product,
                            getDataTranslation(shown[i].region, lang),
                            toFixed2(RatMul(RatInt(shown[i].sales), factor)),
                            shown[i].quantity,
                            toFixed2(RatMul(RatInt(shown[i].profit), factor)) >> ] ]

\* handleExportCSV: the file dashboard_export_<currency>.csv, as its header
\* labels and its rows of fields
csvFile(rows, factor, cur, lang, offset) ==
    [ name    |-> cur,
      headers |-> << <<lang, "colDate">>, <<lang, "colCat">>, <<lang, "colProd">>,
                     <<lang, "colReg">>, <<lang, "colSales">>, <<lang, "colQty">>,
                     <<lang, "colProfit">> >>,
      rows    |-> [ i \in 1 .. Len(rows) |->
                     << formatDate(rows[i].date, resolveLocale(cur), offset),
                        getDataTranslation(rows[i].category, lang),
                        rows[i].product,
                        getDataTranslation(rows[i].region, lang),
                        toFixed2(RatMul(RatInt(rows[i].sales), factor)),
                        rows[i].quantity,
                        toFixed2(RatMul(RatInt(rows[i].profit), factor)) >> ] ]

-----------------------------------------------------------------------------
(* Persistence *)

NoStore == [kind |-> "none", data |-> << >>]
CorruptStore == [kind |-> "corrupt", data |-> << >>]
JsonStore(data) == [kind |-> "json", data |-> data]

\* saveDashboardData without the size check: the payload is always written
saveDashboardData_noCeiling(old, data, tooLarge) == JsonStore(data)

\* dbService.saveDashboardData(data): the new content of the store.  tooLarge
\* tells whether JSON.stringify(data).length exceeds 4500000; the store is
\* then left as it is.
saveDashboardData(old, data, tooLarge) ==
    IF tooLarge THEN old ELSE JsonStore(data)

\* dbService.getDashboardData(): null when the entry is missing or cannot be
\* parsed, otherwise the records read
getDashboardData(st) ==
    IF st.kind = "json" THEN [null |-> FALSE, data |-> st.data]
    ELSE [null |-> TRUE, data |-> << >>]


-----------------------------------------------------------------------------
(* Rendering *)

\* useMemo(compute, deps): the cached value is kept while the deps are the same
useMemo(cached, oldDeps, newDeps, value) ==
    IF oldDeps = newDeps THEN cached ELSE value

\* App shows the spinner instead of the content while loading with no records
contentShown(isLoading, data) == ~ (isLoading /\ Len(data) = 0)

\* the DataGrid is mounted while the content is shown and the data tab is open
gridMounted(tab, isLoading, data) == tab = "data" /\ contentShown(isLoading, data)

\* The render that follows a state change: the App memos are brought up to
\* date and, when the DataGrid is mounted, its ordered set is computed.  With
\* no date bound the DataGrid works on the very array App handed to it.
Render ==
    LET fd   == useMemo(filteredData,
                        << rawData, selectedRegions, selectedCategories >>,
                        << rawData', selectedRegions', selectedCategories' >>,
                        filterData(rawData', selectedRegions', selectedCategories'))
        grid == sortedDataOf(filteredByDateData(fd, startDate', endDate', tz),
                             sortConfig', language')
        mounted == gridMounted(activeTab', loading', rawData')
    IN  /\ conversionFactor' = useMemo(conversionFactor, << currency, rates >>,
                                       << currency', rates' >>,
                                       conversionFactorOf(currency', rates'))
        /\ filteredData' = IF mounted /\ startDate' = NoDate /\ endDate' = NoDate
                           THEN grid.source ELSE fd
        /\ sortedData' = IF mounted THEN grid.result ELSE << >>

\* the state of the DataGrid lives as long as the component is mounted
GridKept ==
    LET mounted == gridMounted(activeTab', loading', rawData')
    IN  /\ sortConfig' = IF mounted THEN sortConfig ELSE NoSort
        /\ startDate' = IF mounted THEN startDate ELSE NoDate
        /\ endDate' = IF mounted THEN endDate ELSE NoDate

NoFile == download' = NoDownload

\* the step raises no alert
NoAlert == alerts' = << >>

\* an effect of ExportMenu: navigator.share called, a share link opened, or
\* the console.log of a rejected share
Effect(kind, channel) == [kind |-> kind, channel |-> channel]

\* no call of processAndShare is in flight
ExportIdle == [at |-> "idle", format |-> "", channel |-> "none"]

\* a step outside the export menu leaves it alone
MenuKept ==
    /\ UNCHANGED << showExportMenu, activeChannel, generating, pcExport, linkTimers >>
    /\ effects' = {}

\* the export menu is not mounted
MenuClosed ==
    /\ showExportMenu = FALSE
    /\ activeChannel = "none"
    /\ generating = FALSE
    /\ pcExport = ExportIdle
    /\ linkTimers = << >>
    /\ effects = {}

-----------------------------------------------------------------------------
(* Operations of App *)

\* loadInitialData with if (dbData) in place of if (dbData && dbData.length > 0)
LoadInitialDone_noLengthCheck ==
    /\ pcLoad = "pending"
    /\ LET dbData == getDashboardData(store)
       IN  IF ~ dbData.null
           THEN rawData' = dbData.data
           ELSE rawData' \in generateMockData(MockCount)
    /\ loading' = FALSE
    /\ pcLoad' = "done"
    /\ UNCHANGED << processingFile, selectedRegions, selectedCategories, activeTab,
                    language, theme, currency, rates, tz, store, pcRefresh, pcUpload,
                    fileInput >>
    /\ GridKept /\ NoFile /\ NoAlert /\ MenuKept /\ Render

\* loadInitialData, from the resolution of getDashboardData on
LoadInitialDone ==
    /\ pcLoad = "pending"
    /\ LET dbData == getDashboardData(store)
       IN  IF ~ dbData.null /\ Len(dbData.data) > 0
           THEN rawData' = dbData.data
           ELSE rawData' \in generateMockData(MockCount)
    /\ loading' = FALSE
    /\ pcLoad' = "done"
    /\ UNCHANGED << processingFile, selectedRegions, selectedCategories, activeTab,
                    language, theme, currency, rates, tz, store, pcRefresh, pcUpload, fileInput >>
    /\ GridKept /\ NoFile /\ NoAlert /\ MenuKept /\ Render

\* refreshData behind a button that is never disabled
RefreshData_notDisabled ==
    /\ loading' = TRUE
    /\ pcRefresh' = "pending"
    /\ UNCHANGED << rawData, processingFile, selectedRegions, selectedCategories,
                    activeTab, language, theme, currency, rates, tz, store,
                    pcLoad, pcUpload, fileInput >>
    /\ GridKept /\ NoFile /\ NoAlert /\ MenuKept /\ Render

\* refreshData: the click on the refresh button
RefreshData ==
    /\ ~ (loading \/ processingFile)
    /\ loading' = TRUE
    /\ pcRefresh' = "pending"
    /\ UNCHANGED << rawData, processingFile, selectedRegions, selectedCategories,
                    activeTab, language, theme, currency, rates, tz, store,
                    pcLoad, pcUpload, fileInput >>
    /\ GridKept /\ NoFile /\ NoAlert /\ MenuKept /\ Render

\* refreshData: the timeout callback
RefreshTimeout ==
    /\ pcRefresh = "pending"
    /\ rawData' \in generateMockData(MockCount)
    /\ loading' = FALSE
    /\ pcRefresh' = "idle"
    /\ UNCHANGED << processingFile, selectedRegions, selectedCategories, activeTab,
                    language, theme, currency, rates, tz, store, pcLoad, pcUpload, fileInput >>
    /\ GridKept /\ NoFile /\ NoAlert /\ MenuKept /\ Render

\* handleFileUpload, up to the await of parseUploadedFile
HandleFileUpload ==
    /\ ~ processingFile
    /\ pcUpload = "idle"
    /\ processingFile' = TRUE
    /\ pcUpload' = "parsing"
    /\ fileInput' = "file"
    /\ UNCHANGED << rawData, loading, selectedRegions, selectedCategories, activeTab,
                    language, theme, currency, rates, tz, store, pcLoad, pcRefresh >>
    /\ GridKept /\ NoFile /\ NoAlert /\ MenuKept /\ Render

\* handleFileUpload, after parseUploadedFile resolved with data; tooLarge says
\* that the serialized payload exceeds the ceiling of saveDashboardData, which
\* an empty record set never does
UploadParsed(data, tooLarge) ==
    /\ pcUpload = "parsing"
    /\ tooLarge => Len(data) > 0
    /\ rawData' = data
    /\ selectedRegions' = << >>
    /\ selectedCategories' = << >>
    /\ store' = saveDashboardData(store, data, tooLarge)
    /\ processingFile' = FALSE
    /\ fileInput' = ""
    /\ pcUpload' = "idle"
    /\ UNCHANGED << loading, activeTab, language, theme, currency, rates, tz,
                    pcLoad, pcRefresh >>
    /\ GridKept /\ NoFile /\ NoAlert /\ MenuKept /\ Render

\* handleFileUpload, after parseUploadedFile resolved for a sheet read at the
\* time now
UploadSheet(sheet, now) ==
    \E data \in parseUploadedFile(sheet, now) : UploadParsed(data, FALSE)

\* handleFileUpload with the reset of the filters placed before the await:
\* a rejected parse leaves the selections empty
UploadFailed_filtersReset ==
    /\ pcUpload = "parsing"
    /\ alerts' = << "errorFile" >>
    /\ selectedRegions' = << >>
    /\ selectedCategories' = << >>
    /\ processingFile' = FALSE
    /\ fileInput' = ""
    /\ pcUpload' = "idle"
    /\ UNCHANGED << rawData, loading, activeTab, language, theme, currency, rates, tz,
                    store, pcLoad, pcRefresh >>
    /\ GridKept /\ NoFile /\ MenuKept /\ Render

\* handleFileUpload, after parseUploadedFile rejected: the catch block
\* raises alert(t.errorFile), the finally block clears the busy flag and the
\* file input
UploadFailed ==
    /\ pcUpload = "parsing"
    /\ alerts' = << "errorFile" >>
    /\ processingFile' = FALSE
    /\ fileInput' = ""
    /\ pcUpload' = "idle"
    /\ UNCHANGED << rawData, loading, selectedRegions, selectedCategories, activeTab,
                    language, theme, currency, rates, tz, store, pcLoad, pcRefresh >>
    /\ GridKept /\ NoFile /\ MenuKept /\ Render

\* click on the button of a region
ToggleRegion(region) ==
    /\ region \in uniqueValues(rawData, "region")
    /\ selectedRegions' = toggleSelection(region, selectedRegions)
    /\ UNCHANGED << rawData, loading, processingFile, selectedCategories, activeTab,
                    language, theme, currency, rates, tz, store, pcLoad, pcRefresh,
                    pcUpload, fileInput >>
    /\ GridKept /\ NoFile /\ NoAlert /\ MenuKept /\ Render

\* click on the checkbox of a category
ToggleCategory(category) ==
    /\ category \in uniqueValues(rawData, "category")
    /\ selectedCategories' = toggleSelection(category, selectedCategories)
    /\ UNCHANGED << rawData, loading, processingFile, selectedRegions, activeTab,
                    language, theme, currency, rates, tz, store, pcLoad, pcRefresh,
                    pcUpload, fileInput >>
    /\ GridKept /\ NoFile /\ NoAlert /\ MenuKept /\ Render

\* click on a tab
SetActiveTab(tab) ==
    /\ contentShown(loading, rawData)
    /\ tab # activeTab
    /\ activeTab' = tab
    /\ UNCHANGED << rawData, loading, processingFile, selectedRegions,
                    selectedCategories, language, theme, currency, rates, tz, store,
                    pcLoad, pcRefresh, pcUpload, fileInput >>
    /\ GridKept /\ NoFile /\ NoAlert /\ MenuKept /\ Render

\* click on a language button, with the effect that follows a change of language
SetLanguage(lang) ==
    /\ language' = lang
    /\ currency' = IF lang # language THEN languageEffect(lang, currency) ELSE currency
    /\ UNCHANGED << rawData, loading, processingFile, selectedRegions,
                    selectedCategories, activeTab, theme, rates, tz, store, pcLoad,
                    pcRefresh, pcUpload, fileInput >>
    /\ GridKept /\ NoFile /\ NoAlert /\ MenuKept /\ Render

\* click on the theme button
ToggleTheme ==
    /\ theme' = IF theme = "light" THEN "dark" ELSE "light"
    /\ UNCHANGED << rawData, loading, processingFile, selectedRegions,
                    selectedCategories, activeTab, language, currency, rates, tz,
                    store, pcLoad, pcRefresh, pcUpload, fileInput >>
    /\ GridKept /\ NoFile /\ NoAlert /\ MenuKept /\ Render

\* choice in the currency selector
SetCurrency(cur) ==
    /\ cur # currency
    /\ currency' = cur
    /\ UNCHANGED << rawData, loading, processingFile, selectedRegions,
                    selectedCategories, activeTab, language, theme, rates, tz, store,
                    pcLoad, pcRefresh, pcUpload, fileInput >>
    /\ GridKept /\ NoFile /\ NoAlert /\ MenuKept /\ Render

\* entry in the rate input, shown for every currency but BRL
EditRate(text) ==
    /\ currency # "BRL"
    /\ rates' = [rates EXCEPT ![currency] = clampRate(text)]
    /\ UNCHANGED << rawData, loading, processingFile, selectedRegions,
                    selectedCategories, activeTab, language, theme, currency, tz,
                    store, pcLoad, pcRefresh, pcUpload, fileInput >>
    /\ GridKept /\ NoFile /\ NoAlert /\ MenuKept /\ Render

-----------------------------------------------------------------------------
(* Operations of DataGrid *)

AppUnchanged ==
    UNCHANGED << rawData, loading, processingFile, selectedRegions, selectedCategories,
                 activeTab, language, theme, currency, rates, tz, store, pcLoad,
                 pcRefresh, pcUpload, fileInput >>

\* entry in the start date input
SetStartDate(day) ==
    /\ gridMounted(activeTab, loading, rawData)
    /\ day # startDate
    /\ startDate' = day
    /\ UNCHANGED << sortConfig, endDate >>
    /\ AppUnchanged /\ NoFile /\ NoAlert /\ MenuKept /\ Render

\* entry in the end date input
SetEndDate(day) ==
    /\ gridMounted(activeTab, loading, rawData)
    /\ day # endDate
    /\ endDate' = day
    /\ UNCHANGED << sortConfig, startDate >>
    /\ AppUnchanged /\ NoFile /\ NoAlert /\ MenuKept /\ Render

\* clearDateFilter: the button shown while a bound is set
ClearDateFilter ==
    /\ gridMounted(activeTab, loading, rawData)
    /\ startDate # NoDate \/ endDate # NoDate
    /\ startDate' = NoDate
    /\ endDate' = NoDate
    /\ UNCHANGED sortConfig
    /\ AppUnchanged /\ NoFile /\ NoAlert /\ MenuKept /\ Render

\* handleSort(key): click on a column header
HandleSort(key) ==
    /\ gridMounted(activeTab, loading, rawData)
    /\ sortConfig' = handleSortConfig(key, sortConfig)
    /\ UNCHANGED << startDate, endDate >>
    /\ AppUnchanged /\ NoFile /\ NoAlert /\ MenuKept /\ Render

\* handleExportCSV: click on the export button
ExportCSV ==
    /\ gridMounted(activeTab, loading, rawData)
    /\ download' = csvFile(sortedData, conversionFactor, currency, language, tz)
    /\ UNCHANGED << sortConfig, startDate, endDate >>
    /\ AppUnchanged /\ NoAlert /\ MenuKept /\ Render

-----------------------------------------------------------------------------
(* Operations of the export menu *)

Channels == {"whatsapp", "email", "download"}

Formats == {"jpg", "pdf"}

\* the image or PDF file built from the canvas
ReportFile(format) ==
    [name |-> IF format = "jpg" THEN "dashboard_report.jpg" ELSE "dashboard_report.pdf",
     headers |-> << >>, rows |-> << >>]

\* a step of the export menu leaves the dashboard alone
DashboardKept ==
    UNCHANGED << rawData, loading, processingFile, selectedRegions, selectedCategories,
                 activeTab, language, theme, currency, rates, filteredData,
                 conversionFactor, sortConfig, startDate, endDate, sortedData, tz,
                 store, pcLoad, pcRefresh, pcUpload, fileInput >>

\* setShowExportMenu(true): the menu mounts with its initial state
OpenExportMenu ==
    /\ ~ showExportMenu
    /\ showExportMenu' = TRUE
    /\ activeChannel' = "none"
    /\ generating' = FALSE
    /\ effects' = {}
    /\ UNCHANGED << pcExport, linkTimers >>
    /\ DashboardKept /\ NoFile /\ NoAlert

\* onClose: the close button, covered by the overlay while generating
CloseExportMenu ==
    /\ showExportMenu
    /\ ~ generating
    /\ showExportMenu' = FALSE
    /\ activeChannel' = "none"
    /\ generating' = FALSE
    /\ effects' = {}
    /\ UNCHANGED << pcExport, linkTimers >>
    /\ DashboardKept /\ NoFile /\ NoAlert

\* setActiveChannel: a channel button of the channel selection, or the back
\* button of the format selection
SetActiveChannel(channel) ==
    /\ showExportMenu
    /\ ~ generating
    /\ \/ activeChannel = "none" /\ channel \in Channels
       \/ activeChannel # "none" /\ channel = "none"
    /\ activeChannel' = channel
    /\ effects' = {}
    /\ UNCHANGED << showExportMenu, generating, pcExport, linkTimers >>
    /\ DashboardKept /\ NoFile /\ NoAlert

\* processAndShare(format): click on a format button, up to the await of
\* html2canvas.  Without a target element the call throws at once: the catch
\* block alerts and the finally block clears the flag in the same step.
ProcessAndShare(format, hasElement) ==
    /\ showExportMenu
    /\ activeChannel # "none"
    /\ ~ generating
    /\ Len(linkTimers) < MaxTimers
    /\ IF hasElement
       THEN /\ generating' = TRUE
            /\ pcExport' = [at |-> "rasterizing", format |-> format, channel |-> activeChannel]
            /\ alerts' = << >>
       ELSE /\ generating' = FALSE
            /\ pcExport' = pcExport
            /\ alerts' = << "Error generating report" >>
    /\ effects' = {}
    /\ UNCHANGED << showExportMenu, activeChannel, linkTimers >>
    /\ DashboardKept /\ NoFile

\* processAndShare with the share-sheet used for every channel
RasterDone_shareAnyChannel(canShare) ==
    /\ pcExport.at = "rasterizing"
    /\ IF canShare
       THEN /\ pcExport' = [pcExport EXCEPT !.at = "sharing"]
            /\ effects' = { Effect("share", pcExport.channel) }
            /\ download' = NoDownload
            /\ UNCHANGED << generating, linkTimers >>
       ELSE /\ download' = ReportFile(pcExport.format)
            /\ linkTimers' = IF pcExport.channel \in {"whatsapp", "email"}
                             THEN Append(linkTimers, pcExport.channel)
                             ELSE linkTimers
            /\ generating' = FALSE
            /\ pcExport' = ExportIdle
            /\ effects' = {}
    /\ UNCHANGED << showExportMenu, activeChannel >>
    /\ DashboardKept /\ NoAlert

\* processAndShare, after html2canvas resolved and the file was built: the
\* file goes to navigator.share when the channel is not 'download' and
\* navigator.canShare accepts it; otherwise it is downloaded, a timeout is
\* set to open the WhatsApp or e-mail link, and the finally block clears the
\* flag
RasterDone(canShare) ==
    /\ pcExport.at = "rasterizing"
    /\ IF pcExport.channel # "download" /\ canShare
       THEN /\ pcExport' = [pcExport EXCEPT !.at = "sharing"]
            /\ effects' = { Effect("share", pcExport.channel) }
            /\ download' = NoDownload
            /\ UNCHANGED << generating, linkTimers >>
       ELSE /\ download' = ReportFile(pcExport.format)
            /\ linkTimers' = IF pcExport.channel \in {"whatsapp", "email"}
                             THEN Append(linkTimers, pcExport.channel)
                             ELSE linkTimers
            /\ generating' = FALSE
            /\ pcExport' = ExportIdle
            /\ effects' = {}
    /\ UNCHANGED << showExportMenu, activeChannel >>
    /\ DashboardKept /\ NoAlert

\* processAndShare with the flag cleared in the try block only
RasterFailed_noFinally ==
    /\ pcExport.at = "rasterizing"
    /\ alerts' = << "Error generating report" >>
    /\ pcExport' = ExportIdle
    /\ effects' = {}
    /\ UNCHANGED << showExportMenu, activeChannel, generating, linkTimers >>
    /\ DashboardKept /\ NoFile

\* processAndShare, after html2canvas rejected or building the file threw:
\* the catch block alerts, the finally block clears the flag
RasterFailed ==
    /\ pcExport.at = "rasterizing"
    /\ alerts' = << "Error generating report" >>
    /\ generating' = FALSE
    /\ pcExport' = ExportIdle
    /\ effects' = {}
    /\ UNCHANGED << showExportMenu, activeChannel, linkTimers >>
    /\ DashboardKept /\ NoFile

\* processAndShare, after navigator.share settled: a rejection (the user
\* cancelled, or the share failed) is logged and nothing else is done
ShareSettled(resolved) ==
    /\ pcExport.at = "sharing"
    /\ effects' = IF resolved THEN {} ELSE { Effect("log", pcExport.channel) }
    /\ generating' = FALSE
    /\ pcExport' = ExportIdle
    /\ UNCHANGED << showExportMenu, activeChannel, linkTimers >>
    /\ DashboardKept /\ NoFile /\ NoAlert

\* the timeout callback set 500 ms before: window.open of the share link
OpenLink ==
    /\ Len(linkTimers) > 0
    /\ effects' = { Effect("open", Head(linkTimers)) }
    /\ linkTimers' = Tail(linkTimers)
    /\ UNCHANGED << showExportMenu, activeChannel, generating, pcExport >>
    /\ DashboardKept /\ NoFile /\ NoAlert

-----------------------------------------------------------------------------
(* The whole application, from the first render on *)

\* files of the uploads: an empty sheet and a full one
UploadSets ==
    { s \in DataSets : Len(s) = 0 \/ (Len(s) = MaxRecords /\ \A i \in 1 .. Len(s) : s[i].id = i) }

Init ==
    /\ rawData = << >>
    /\ loading = TRUE
    /\ processingFile = FALSE
    /\ selectedRegions = << >>
    /\ selectedCategories = << >>
    /\ activeTab = "charts"
    /\ language = "pt"
    /\ theme = "light"
    /\ currency = "BRL"
    /\ rates = InitialRates
    /\ filteredData = << >>
    /\ conversionFactor = RatInt(1)
    /\ sortConfig = NoSort
    /\ startDate = NoDate
    /\ endDate = NoDate
    /\ sortedData = << >>
    /\ download = NoDownload
    /\ tz = 0
    /\ store \in {NoStore, CorruptStore}
    /\ pcLoad = "pending"
    /\ pcRefresh = "idle"
    /\ pcUpload = "idle"
    /\ fileInput = ""
    /\ alerts = << >>
    /\ MenuClosed

Next ==
    \/ LoadInitialDone
    \/ RefreshData
    \/ RefreshTimeout
    \/ HandleFileUpload
    \/ \E data \in UploadSets, tooLarge \in BOOLEAN : UploadParsed(data, tooLarge)
    \/ UploadFailed
    \/ \E region \in {"North"} : ToggleRegion(region)
    \/ \E category \in {"Food"} : ToggleCategory(category)
    \/ \E tab \in {"charts", "data"} : SetActiveTab(tab)
    \/ \E lang \in {"pt", "en"} : SetLanguage(lang)
    \/ ToggleTheme
    \/ \E cur \in {"USD"} : SetCurrency(cur)
    \/ \E text \in {""} : EditRate(text)
    \/ \E day \in {NoDate, 1} : SetStartDate(day)
    \/ \E day \in {1} : SetEndDate(day)
    \/ ClearDateFilter
    \/ \E key \in {"sales"} : HandleSort(key)
    \/ ExportCSV

Spec == Init /\ [][Next]_vars

-----------------------------------------------------------------------------
(* The application once a record set is loaded *)

InitLoaded(tab) ==
    /\ rawData \in DataSets
    /\ loading = FALSE
    /\ processingFile = FALSE
    /\ selectedRegions = << >>
    /\ selectedCategories = << >>
    /\ activeTab = tab
    /\ language = "pt"
    /\ theme = "light"
    /\ currency = "BRL"
    /\ rates = InitialRates
    /\ filteredData = filterData(rawData, << >>, << >>)
    /\ conversionFactor = RatInt(1)
    /\ sortConfig = NoSort
    /\ startDate = NoDate
    /\ endDate = NoDate
    /\ sortedData = IF tab = "data" THEN filteredData ELSE << >>
    /\ download = NoDownload
    /\ store = NoStore
    /\ pcLoad = "done"
    /\ pcRefresh = "idle"
    /\ pcUpload = "idle"
    /\ fileInput = ""
    /\ alerts = << >>
    /\ MenuClosed

\* The Filter Engine: every selection over every record set, and record sets
\* replaced under a standing selection
InitFilter == InitLoaded("charts") /\ tz = 0

NextFilter ==
    \/ RefreshData
    \/ RefreshTimeout
    \/ \E region \in REGIONS \cup {"Unknown"} : ToggleRegion(region)
    \/ \E category \in CATEGORIES : ToggleCategory(category)

SpecFilter == InitFilter /\ [][NextFilter]_vars

\* Aggregation and conversion: selections, currencies of two and of no
\* fraction digits and rates over the empty and the full record sets, with
\* the table on its default date range
InitViews == InitLoaded("charts") /\ tz = 0 /\ Len(rawData) \in {0, MaxRecords}

NextViews ==
    \/ \E region \in REGIONS \cup {"Unknown"} : ToggleRegion(region)
    \/ \E category \in CATEGORIES : ToggleCategory(category)
    \/ \E cur \in {"BRL", "USD", "PYG"} : SetCurrency(cur)
    \/ \E text \in {""} : EditRate(text)
    \/ \E tab \in {"charts", "data"} : SetActiveTab(tab)
    \/ \E key \in {"sales"} : HandleSort(key)
    \/ ExportCSV

SpecViews == InitViews /\ [][NextViews]_vars

\* Settings: language, theme, currency and every kind of rate entry
InitSettings == InitLoaded("charts") /\ tz = 0 /\ Len(rawData) = 0

NextSettings ==
    \/ \E lang \in Languages : SetLanguage(lang)
    \/ ToggleTheme
    \/ \E cur \in Currencies : SetCurrency(cur)
    \/ \E text \in RateInputs : EditRate(text)

SpecSettings == InitSettings /\ [][NextSettings]_vars

\* The DataGrid over the empty and the full record sets in every time zone
InitGrid == InitLoaded("data") /\ tz \in TimeZones /\ Len(rawData) \in {0, MaxRecords}

NextGrid ==
    \/ \E day \in DateInputs : SetStartDate(day)
    \/ \E day \in DateInputs : SetEndDate(day)
    \/ ClearDateFilter
    \/ \E key \in SortKeys : HandleSort(key)
    \/ \E lang \in Languages : SetLanguage(lang)
    \/ ExportCSV

SpecGrid == InitGrid /\ [][NextGrid]_vars

\* Upload ingestion: sheets of every kind of date cell, uploaded one after
\* the other
InitIngest == InitLoaded("charts") /\ tz = 0 /\ Len(rawData) = 0

NextIngest ==
    \/ HandleFileUpload
    \/ \E sheet \in Sheets, now \in NowTimes : UploadSheet(sheet, now)
    \/ UploadFailed
    \/ \E tab \in {"charts", "data"} : SetActiveTab(tab)

SpecIngest == InitIngest /\ [][NextIngest]_vars

\* The loads of the application from the first render on.  The promise of
\* getDashboardData resolves, the refresh timeout fires, and the promise of
\* parseUploadedFile settles.
NextBusy ==
    \/ LoadInitialDone
    \/ RefreshData
    \/ RefreshTimeout
    \/ HandleFileUpload
    \/ \E data \in UploadSets, tooLarge \in BOOLEAN : UploadParsed(data, tooLarge)
    \/ UploadFailed
    \/ \E tab \in {"charts", "data"} : SetActiveTab(tab)

SpecBusy ==
    /\ Init
    /\ [][NextBusy]_vars
    /\ WF_vars(LoadInitialDone)
    /\ WF_vars(RefreshTimeout)
    /\ WF_vars(UploadFailed \/ \E data \in UploadSets, tooLarge \in BOOLEAN :
                                  UploadParsed(data, tooLarge))

\* The export menu over a loaded dashboard.  The promises of html2canvas and
\* navigator.share settle and the timeouts fire.
InitExport == InitLoaded("charts") /\ tz = 0 /\ Len(rawData) = 0

NextExport ==
    \/ OpenExportMenu
    \/ CloseExportMenu
    \/ \E channel \in Channels \cup {"none"} : SetActiveChannel(channel)
    \/ \E format \in Formats, hasElement \in BOOLEAN : ProcessAndShare(format, hasElement)
    \/ \E canShare \in BOOLEAN : RasterDone(canShare)
    \/ RasterFailed
    \/ \E resolved \in BOOLEAN : ShareSettled(resolved)
    \/ OpenLink

SpecExport ==
    /\ InitExport
    /\ [][NextExport]_vars
    /\ WF_vars(\E canShare \in BOOLEAN : RasterDone(canShare))
    /\ WF_vars(\E resolved \in BOOLEAN : ShareSettled(resolved))
    /\ WF_vars(OpenLink)


-----------------------------------------------------------------------------
(* Properties *)

Range(list) == { list[i] : i \in 1 .. Len(list) }

\* the position of the record with the given id in a record set
PositionOf(data, id) == CHOOSE i \in 1 .. Len(data) : data[i].id = id

\* the membership predicate of the Filter Engine
Passes(r, regions, categories) ==
    /\ (regions = << >> \/ r.region \in Range(regions))
    /\ (categories = << >> \/ r.category \in Range(categories))

\* C1: the filtered set holds exactly the records of the Record Store that
\* pass the region and category selection, each once and in the order of the
\* Record Store; with nothing selected it is the whole Record Store, and it is
\* empty when the Record Store is.
FilterExact ==
    /\ \A i \in 1 .. Len(filteredData) :
          /\ Passes(filteredData[i], selectedRegions, selectedCategories)
          /\ \E j \in 1 .. Len(rawData) : rawData[j] = filteredData[i]
    /\ \A j \in 1 .. Len(rawData) :
          Passes(rawData[j], selectedRegions, selectedCategories)
             => \E i \in 1 .. Len(filteredData) : filteredData[i] = rawData[j]
    /\ \A i, k \in 1 .. Len(filteredData) :
          i < k => PositionOf(rawData, filteredData[i].id)
                      < PositionOf(rawData, filteredData[k].id)
    /\ (selectedRegions = << >> /\ selectedCategories = << >> => filteredData = rawData)
    /\ (rawData = << >> => filteredData = << >>)

\* C1 witness: a selection of both kinds that keeps some records and drops others
FilterExactWitness ==
    /\ selectedRegions # << >>
    /\ selectedCategories # << >>
    /\ Len(filteredData) > 0
    /\ Len(filteredData) < Len(rawData)

\* C2: filtering the filtered set again with the same selection changes nothing
FilterIdempotent ==
    filterData(filteredData, selectedRegions, selectedCategories) = filteredData

\* C2 witness: a selection that dropped records and kept more than one
FilterIdempotentWitness ==
    /\ selectedRegions # << >>
    /\ Len(filteredData) > 1
    /\ Len(filteredData) < Len(rawData)

\* C3: the conversion factor is 1 for BRL, the inverse of the USD rate for USD
\* and the rate of the currency for ARS, PYG and UYU, for the current currency
\* and the current rate table.
FactorCurrent ==
    /\ currency = "BRL" => conversionFactor = RatInt(1)
    /\ currency = "USD" => /\ IsFinite(conversionFactor)
                           /\ RatMul(conversionFactor, rates["USD"]) = RatInt(1)
    /\ currency \in {"ARS", "PYG", "UYU"} => conversionFactor = rates[currency]

\* C3 witness: USD is shown after its rate was edited
FactorCurrentWitness ==
    /\ currency = "USD"
    /\ rates["USD"] # InitialRates["USD"]
    /\ rates["ARS"] # InitialRates["ARS"]

\* every rate is a number not below 0.0001
RatesClamped ==
    \A c \in RateCurrencies :
        /\ IsFinite(rates[c])
        /\ rates[c].n * 10000 >= rates[c].d

\* C4: every rate is at least 0.0001, an entry that is negative or not a
\* number sets the edited rate to exactly 0.0001, and the conversion factor is
\* finite and greater than zero.
RateClamp ==
    /\ [](RatesClamped /\ IsFinite(conversionFactor) /\ conversionFactor.n > 0)
    /\ [][\A text \in {"", "-5"} :
            EditRate(text) => (rates')[currency] = [n |-> 1, d |-> 10000]]_vars

\* C4 witness: the rate of the displayed currency is at the minimum after an edit
RateClampWitness ==
    /\ currency = "USD"
    /\ rates["USD"] = [n |-> 1, d |-> 10000]
    /\ conversionFactor = RatInt(10000)


\* the sum of a field over the records at the given positions
RECURSIVE IndexSum(_, _, _)
IndexSum(data, field, I) ==
    IF I = {} THEN 0
    ELSE LET i == CHOOSE i \in I : TRUE
         IN  data[i][field] + IndexSum(data, field, I \ {i})

\* C5: the totals are the sums of sales, quantity and profit over the filtered
\* set; the average ticket is the total sales divided by the number of
\* records, and 0 for an empty set.
MetricsExact ==
    LET m == metricsOf(filteredData)
        n == Len(filteredData)
    IN  /\ m.totalSales = IndexSum(filteredData, "sales", 1 .. n)
        /\ m.totalQuantity = IndexSum(filteredData, "quantity", 1 .. n)
        /\ m.totalProfit = IndexSum(filteredData, "profit", 1 .. n)
        /\ n > 0 => /\ IsFinite(m.avgTicket)
                    /\ m.avgTicket.n * n = m.totalSales * m.avgTicket.d
        /\ n = 0 => m.avgTicket = RatInt(0)

\* C5 witness: a selection keeps several records whose average is not a whole number
MetricsExactWitness ==
    /\ selectedCategories # << >>
    /\ Len(filteredData) > 1
    /\ metricsOf(filteredData).avgTicket.d > 1

\* the sum of the numbers of a list
RECURSIVE RatSum(_)
RatSum(list) ==
    IF list = << >> THEN RatInt(0) ELSE RatAdd(Head(list), RatSum(Tail(list)))

\* C6: the values of the category groups add up to the total sales times the
\* conversion factor, and every record's category has exactly one group.
SumDecomposition ==
    LET cd == categoryData(filteredData, language, conversionFactor)
    IN  /\ RatSum([ i \in 1 .. Len(cd) |-> cd[i].value ])
              = RatMul(RatInt(metricsOf(filteredData).totalSales), conversionFactor)
        /\ \A j \in 1 .. Len(filteredData) :
              Cardinality({ i \in 1 .. Len(cd) :
                              cd[i].originalName = filteredData[j].category }) = 1

\* C6 witness: two groups, one of them of several records, in a converted currency
SumDecompositionWitness ==
    /\ activeTab = "charts"
    /\ currency = "USD"
    /\ Len(filteredData) = 3
    /\ Len(categoryData(filteredData, language, conversionFactor)) = 2

\* the amount read from a formatted text
TextValue(text) == Rat(text.units, Pow10(text.digits))

\* the text shows exactly the value
ExactText(text, value) == text.finite /\ TextValue(text) = value

\* the text shows the value rounded to its fraction digits
RoundedText(text, value) ==
    /\ text.finite
    /\ 2 * Abs(text.units * value.d - value.n * Pow10(text.digits)) <= value.d

\* a base amount multiplied once by the current conversion factor
Converted(base) == RatMul(base, conversionFactor)

\* Every monetary value shown or exported is its base value converted once,
\* the formatted ones exactly or up to the rounding of their format;
\* quantities are not converted.
MonetaryValues(exact) ==
    LET TextShows(text, value) ==
            IF exact THEN ExactText(text, value) ELSE RoundedText(text, value)
        F    == filteredData
        n    == Len(F)
        sum(field, I) == IndexSum(F, field, I)
        kpi  == KPICards(metricsOf(F), conversionFactor, currency)
        avg  == IF n = 0 THEN RatInt(0) ELSE Rat(sum("sales", 1 .. n), n)
        cd   == categoryData(F, language, conversionFactor)
        td   == timeData(F, conversionFactor)
        rd   == regionData(F, language, conversionFactor)
        sd   == scatterData(F, language, conversionFactor)
        rows == tableRows(sortedData, conversionFactor, currency)
        regionSum(r) == sum("sales", { j \in 1 .. n : F[j].region = r })
        regions == { F[j].region : j \in 1 .. n }
    IN  /\ TextShows(kpi.revenue, Converted(RatInt(sum("sales", 1 .. n))))
        /\ TextShows(kpi.ticket, Converted(avg))
        /\ TextShows(kpi.profit, Converted(RatInt(sum("profit", 1 .. n))))
        /\ kpi.items = sum("quantity", 1 .. n)
        /\ \A i \in 1 .. Len(cd) :
              cd[i].value = Converted(RatInt(sum("sales",
                               { j \in 1 .. n : F[j].category = cd[i].originalName })))
        /\ \A i \in 1 .. Len(td) :
              td[i].sales = Converted(RatInt(sum("sales",
                               { j \in 1 .. n : F[j].date \div DayMs = td[i].date })))
        /\ Len(rd) = Cardinality(regions)
        /\ \A i \in 1 .. Len(rd) :
              /\ \E r \in regions :
                    /\ rd[i].subject = getDataTranslation(r, language)
                    /\ rd[i].A = Converted(RatInt(regionSum(r)))
              /\ \E r \in regions :
                    /\ \A q \in regions : regionSum(q) <= regionSum(r)
                    /\ rd[i].fullMark = Converted(RatInt(regionSum(r)))
        /\ \A i \in 1 .. n :
              /\ sd[i].x = Converted(RatInt(F[i].sales))
              /\ sd[i].y = Converted(RatInt(F[i].profit))
              /\ sd[i].z = F[i].quantity
        /\ Len(rows) = IF Len(sortedData) < DisplayLimit
                      THEN Len(sortedData) ELSE DisplayLimit
        /\ \A i \in 1 .. Len(rows) :
              /\ TextShows(rows[i].sales, Converted(RatInt(sortedData[i].sales)))
              /\ TextShows(rows[i].profit, Converted(RatInt(sortedData[i].profit)))
              /\ rows[i].quantity = sortedData[i].quantity
        /\ download # NoDownload =>
              /\ Len(download.rows) = Len(sortedData)
              /\ \A i \in 1 .. Len(sortedData) :
                    /\ TextShows(download.rows[i][5] @@ [finite |-> TRUE],
                                 Converted(RatInt(sortedData[i].sales)))
                    /\ TextShows(download.rows[i][7] @@ [finite |-> TRUE],
                                 Converted(RatInt(sortedData[i].profit)))
                    /\ download.rows[i][6] = sortedData[i].quantity

BulkReplace ==
    \/ LoadInitialDone
    \/ RefreshTimeout
    \/ \E data \in DataSets, tooLarge \in BOOLEAN : UploadParsed(data, tooLarge)

\* C8: the Record Store changes only by a bulk replace (initial load, refresh,
\* upload); no other step changes a stored record or the stored order, and
\* the filtered set handed to the charts changes only with the Record Store
\* or the selection, never by sorting the table.
RecordStoreFrame ==
    [][ /\ rawData' # rawData => BulkReplace
        /\ filteredData' # filteredData =>
              \/ rawData' # rawData
              \/ selectedRegions' # selectedRegions
              \/ selectedCategories' # selectedCategories ]_vars

\* C8 witness: the table is sorted into another order than the filtered set,
\* in a converted currency with an edited rate and the dark theme
RecordStoreFrameWitness ==
    /\ sortConfig # NoSort
    /\ Len(sortedData) > 1
    /\ sortedData # filteredData
    /\ filteredData = rawData
    /\ currency = "USD"
    /\ rates # InitialRates
    /\ theme = "dark"

\* the first millisecond of a calendar day in the local time of the user
LocalMidnight(day) == day * DayMs - tz

\* C9: the table keeps a record exactly when its timestamp lies between the
\* first millisecond of the start day and the last millisecond of the end
\* day; an absent bound restricts nothing, and with no bound and no sort the
\* table shows the filtered set as it is.
DateRangeInclusive ==
    gridMounted(activeTab, loading, rawData) =>
        /\ \A i \in 1 .. Len(filteredData) :
              LET r == filteredData[i]
              IN  (\E j \in 1 .. Len(sortedData) : sortedData[j] = r)
                     <=> /\ (startDate = NoDate \/ r.date >= LocalMidnight(startDate))
                         /\ (endDate = NoDate
                                \/ r.date <= LocalMidnight(endDate) + DayMs - 1)
        /\ (startDate = NoDate /\ endDate = NoDate /\ sortConfig = NoSort)
              => sortedData = filteredData

\* the direction a column starts with
DefaultDirection(key) ==
    IF key \in {"sales", "profit", "quantity", "date"} THEN "desc" ELSE "asc"

\* C10: the sort specification is none or one key with one direction; a click
\* on a column that is not the active key makes it the key with its default
\* direction (descending for sales, profit, quantity and date, ascending for
\* category, region and product), and a click on the active key keeps the key
\* and flips the direction.
SortClicks ==
    /\ [](sortConfig = NoSort
            \/ (sortConfig.key \in SortKeys /\ sortConfig.direction \in {"asc", "desc"}))
    /\ [][\A key \in SortKeys :
            HandleSort(key) =>
                /\ sortConfig'.key = key
                /\ IF sortConfig = NoSort \/ sortConfig.key # key
                   THEN sortConfig'.direction = DefaultDirection(key)
                   ELSE /\ sortConfig'.direction \in {"asc", "desc"}
                        /\ sortConfig'.direction # sortConfig.direction]_vars

\* C10 witness: a text column was clicked twice, so that its direction is the
\* flipped one
SortClicksWitness ==
    /\ sortConfig = [key |-> "category", direction |-> "desc"]
    /\ Len(sortedData) > 1

\* the date-filtered set the DataGrid sorts
DateFiltered == filteredByDateData(filteredData, startDate, endDate, tz)

\* the value a record is ordered by: the place of its label (category and
\* region) or of its text (product) in the order of texts, or its number
SortKeyValue(r, key, lang) ==
    IF key \in {"category", "region"} THEN TextRank(getDataTranslation(r[key], lang))
    ELSE IF key = "product" THEN TextRank(r[key])
    ELSE r[key]

\* C11: with an active sort the table's ordered set is a permutation of the
\* date-filtered set, non-decreasing in the sort key for ascending and
\* non-increasing for descending, where category and region are ordered by
\* their label in the current language, product by its text and the other
\* columns by their number; with no active sort it is the date-filtered set
\* in its incoming order.
SortOrdered ==
    gridMounted(activeTab, loading, rawData) =>
        LET D == DateFiltered
            S == sortedData
            v(r) == SortKeyValue(r, sortConfig.key, language)
        IN  /\ Len(S) = Len(D)
            /\ \A r \in Range(D) \cup Range(S) :
                  Cardinality({ i \in 1 .. Len(S) : S[i] = r })
                     = Cardinality({ i \in 1 .. Len(D) : D[i] = r })
            /\ sortConfig = NoSort => S = D
            /\ sortConfig # NoSort =>
                  \A i \in 1 .. Len(S) - 1 :
                      IF sortConfig.direction = "asc"
                      THEN v(S[i]) <= v(S[i + 1])
                      ELSE v(S[i]) >= v(S[i + 1])

\* C11 witness: in Portuguese the table is sorted by category ascending, so
\* that Food (Alimentos) comes before Electronics (Eletronicos)
SortOrderedWitness ==
    /\ language = "pt"
    /\ sortConfig = [key |-> "category", direction |-> "asc"]
    /\ Len(sortedData) > 1
    /\ sortedData[1].category = "Food"
    /\ sortedData[Len(sortedData)].category = "Electronics"
    /\ startDate # NoDate

\* C12: the sort is stable: two records of the date-filtered set whose sort
\* keys compare equal keep their relative order in the ordered set.
SortStable ==
    (gridMounted(activeTab, loading, rawData) /\ sortConfig # NoSort) =>
        LET D == DateFiltered
            v(r) == SortKeyValue(r, sortConfig.key, language)
        IN  \A i, j \in 1 .. Len(D) :
                (i < j /\ v(D[i]) = v(D[j])) =>
                    PositionOf(sortedData, D[i].id) < PositionOf(sortedData, D[j].id)

\* C12 witness: sorted by sales descending, two records of equal sales stand
\* around a record of smaller sales in the input and next to each other,
\* in their incoming order, in the ordered set
SortStableWitness ==
    /\ sortConfig = [key |-> "sales", direction |-> "desc"]
    /\ Len(sortedData) = 3
    /\ filteredData[1].sales = filteredData[3].sales
    /\ filteredData[2].sales < filteredData[1].sales
    /\ sortedData[1] = filteredData[1]
    /\ sortedData[2] = filteredData[3]

\* a list back to front
Reverse(list) == [ i \in 1 .. Len(list) |-> list[Len(list) + 1 - i] ]

\* the records of a list have pairwise different values of the sort key
DistinctKeys(list, key, lang) ==
    \A i, j \in 1 .. Len(list) :
        i # j => SortKeyValue(list[i], key, lang) # SortKeyValue(list[j], key, lang)

\* C13: when the values of the sort field are pairwise distinct, a click on
\* the column that is already the sort key turns the ordered set into exactly
\* its reverse.
SortReverse ==
    [][\A key \in SortKeys :
          (/\ HandleSort(key)
           /\ sortConfig # NoSort
           /\ sortConfig.key = key
           /\ DistinctKeys(DateFiltered, key, language))
             => sortedData' = Reverse(sortedData)]_vars

\* C13 witness: three records of different quantities after the second click
\* on the quantity column
SortReverseWitness ==
    /\ sortConfig = [key |-> "quantity", direction |-> "asc"]
    /\ Len(sortedData) = 3
    /\ DistinctKeys(sortedData, "quantity", language)
    /\ sortedData[1].quantity < sortedData[2].quantity

\* C14: whenever the table's ordered set is not empty, minSales is its
\* smallest sales value, maxSales its largest sales value and maxProfit its
\* largest profit value.
HeatmapExtremes ==
    (gridMounted(activeTab, loading, rawData) /\ sortedData # << >>) =>
        LET I == 1 .. Len(sortedData)
        IN  /\ \E i \in I : /\ sortedData[i].sales = minSales(sortedData)
                            /\ \A j \in I : sortedData[i].sales <= sortedData[j].sales
            /\ \E i \in I : /\ sortedData[i].sales = maxSales(sortedData)
                            /\ \A j \in I : sortedData[j].sales <= sortedData[i].sales
            /\ \E i \in I : /\ sortedData[i].profit = maxProfit(sortedData)
                            /\ \A j \in I : sortedData[j].profit <= sortedData[i].profit

\* C15: the exported file has one header row and exactly one row per record
\* of the date-filtered, sorted table view, in the order of the view and also
\* for the records beyond the rows the table paints; the sales and profit
\* fields are the record's base values times the conversion factor, written
\* with two decimals, and the quantity field is the stored quantity.
CsvExportComplete ==
    download # NoDownload =>
        /\ Len(download.headers) = 7
        /\ Len(download.rows) = Len(sortedData)
        /\ Len(download.rows) = Len(DateFiltered)
        /\ Len(tableRows(sortedData, conversionFactor, currency)) <= DisplayLimit
        /\ \A i \in 1 .. Len(sortedData) :
              LET row == download.rows[i]
                  r   == sortedData[i]
              IN  /\ row[1].day = (r.date + tz) \div DayMs
                  /\ row[2] = getDataTranslation(r.category, language)
                  /\ row[3] = r.product
                  /\ row[4] = getDataTranslation(r.region, language)
                  /\ row[5].digits = 2
                  /\ RoundedText(row[5] @@ [finite |-> TRUE], Converted(RatInt(r.sales)))
                  /\ row[6] = r.quantity
                  /\ row[7].digits = 2
                  /\ RoundedText(row[7] @@ [finite |-> TRUE], Converted(RatInt(r.profit)))

\* C15 witness: a file exported in USD from a table sorted by profit that
\* holds more records than it paints
CsvExportCompleteWitness ==
    /\ download.name = "USD"
    /\ sortConfig = [key |-> "profit", direction |-> "desc"]
    /\ Len(download.rows) > DisplayLimit
    /\ sortedData # filteredData

\* C16: a successful upload resets the filter, sort and date-range
\* selections: after it the selected regions and categories are empty, no
\* sort key is active and the start and end dates are absent, whichever tab
\* is open.
UploadResetsSelections ==
    [][\A data \in DataSets, tooLarge \in BOOLEAN :
          UploadParsed(data, tooLarge) =>
              /\ selectedRegions' = << >>
              /\ selectedCategories' = << >>
              /\ sortConfig' = NoSort
              /\ startDate' = NoDate
              /\ endDate' = NoDate]_vars

\* C17: when the parse of an uploaded file fails, the Record Store, the
\* selected regions and categories and the persisted data stay as they were,
\* exactly one alert is raised, processingFile is false again and the file
\* input is cleared.
UploadFailureFrame ==
    [][UploadFailed =>
          /\ rawData' = rawData
          /\ selectedRegions' = selectedRegions
          /\ selectedCategories' = selectedCategories
          /\ filteredData' = filteredData
          /\ store' = store
          /\ Len(alerts') = 1
          /\ processingFile' = FALSE
          /\ fileInput' = ""]_vars

\* C17 witness: an upload has just failed over a persisted record set with a
\* region selected
UploadFailureFrameWitness ==
    /\ alerts = << "errorFile" >>
    /\ store.kind = "json"
    /\ Len(rawData) > 0
    /\ selectedRegions # << >>
    /\ ~ processingFile
    /\ fileInput = ""

\* C18: when a parsed upload serializes to more than the size ceiling, the
\* save neither raises nor writes: the persisted data stays as it was, the
\* Record Store holds the uploaded set, no alert is raised and processingFile
\* is false again.
SaveCeiling ==
    [][(pcUpload = "parsing" /\ pcUpload' = "idle") =>
          \A data \in DataSets :
              UploadParsed(data, TRUE) =>
                  /\ store' = store
                  /\ rawData' = data
                  /\ alerts' = << >>
                  /\ processingFile' = FALSE]_vars

\* C18 witness: the Record Store holds a full uploaded set while the
\* persisted data is still the empty list of an earlier upload
SaveCeilingWitness ==
    /\ store = JsonStore(<< >>)
    /\ Len(rawData) = MaxRecords
    /\ pcUpload = "idle"
    /\ pcLoad = "done"
    /\ ~ processingFile
    /\ alerts = << >>

\* a generated record: a known category and region and a positive quantity
\* and sales value
IsGenerated(r) ==
    /\ r.category \in CATEGORIES
    /\ r.region \in REGIONS
    /\ r.quantity >= 1
    /\ r.sales > 0

\* C19: the initial load sets the Record Store to a generated mock set of
\* MockCount records when the persisted data is missing, cannot be parsed or
\* is an empty list, and to the persisted list when that is a non-empty
\* parseable list; in every case no error is shown and loading ends false.
InitialLoadFallback ==
    [][LoadInitialDone =>
          /\ (store.kind \in {"none", "corrupt"} \/ store.data = << >>) =>
                /\ Len(rawData') = MockCount
                /\ \A i \in 1 .. MockCount : IsGenerated(rawData'[i])
                /\ SortedByDate(rawData')
          /\ (store.kind = "json" /\ store.data # << >>) => rawData' = store.data
          /\ alerts' = << >>
          /\ loading' = FALSE]_vars

\* C19 witness: the load is done over persisted data that cannot be parsed,
\* and the Record Store holds a generated set
InitialLoadFallbackWitness ==
    /\ pcLoad = "done"
    /\ store = CorruptStore
    /\ Len(rawData) = MockCount
    /\ ~ loading

\* an upload that was started during the pending initial load has completed:
\* before the load completes only an upload writes the Record Store or the
\* persisted data
UploadOvertookLoad ==
    /\ pcLoad = "pending"
    /\ pcUpload = "idle"
    /\ rawData # << >> \/ store.kind = "json"

\* C20: a load started later supersedes a pending one.  For the initial load:
\* when the load completes after an upload that was started while it was
\* pending, the Record Store keeps the record set of the upload.
LatestLoadWins ==
    [][(UploadOvertookLoad /\ LoadInitialDone) => rawData' = rawData]_vars

\* what the KPI cards and the charts compute from the set handed to them
ViewsOf(F, lang, factor) ==
    [ metrics  |-> metricsOf(F),
      category |-> categoryData(F, lang, factor),
      time     |-> timeData(F, factor),
      region   |-> regionData(F, lang, factor),
      scatter  |-> scatterData(F, lang, factor) ]

\* C21: the date range and the sort specification affect only the table: a
\* change of the start date, the end date or the sort key or direction
\* leaves the filtered set, the KPI metrics and the chart groupings as they
\* were, and every record of the table's ordered set is a record of the
\* filtered set that feeds the KPIs and charts.
TableScoped ==
    /\ [](\A i \in 1 .. Len(sortedData) :
             \E j \in 1 .. Len(filteredData) : filteredData[j] = sortedData[i])
    /\ [][(startDate' # startDate \/ endDate' # endDate \/ sortConfig' # sortConfig) =>
             /\ filteredData' = filteredData
             /\ ViewsOf(filteredData', language', conversionFactor')
                   = ViewsOf(filteredData, language, conversionFactor)]_vars

\* C21 witness: a start date keeps part of the filtered set and the table is
\* sorted into another order than that of the filtered set
TableScopedWitness ==
    /\ startDate # NoDate
    /\ sortConfig # NoSort
    /\ Len(sortedData) > 1
    /\ Len(sortedData) < Len(filteredData)
    /\ sortedData[1].id > sortedData[2].id

\* C22: every record produced by an upload has a valid date: a numeric cell
\* gives the day with that serial number, where day 25569 is 1970-01-01, a
\* parseable text gives its date, and an absent cell or an unparseable text
\* gives the time of the parse.
IngestedDates ==
    [][(pcUpload = "parsing" /\ pcUpload' = "idle" /\ alerts' = << >>) =>
          \A sheet \in Sheets, now \in NowTimes :
              UploadSheet(sheet, now) =>
                  \A i \in 1 .. Len(rawData') :
                      LET cell == sheet[rawData'[i].id].date
                          date == rawData'[i].date
                      IN  /\ date # InvalidTime
                          /\ cell.kind = "number" =>
                                /\ date \div DayMs = cell.num - 25569
                                /\ date % DayMs = 0
                          /\ (cell.kind = "string" /\ cell.text = "1970-01-02") =>
                                date = DayMs
                          /\ (cell.kind = "absent"
                                \/ (cell.kind = "string" /\ cell.text # "1970-01-02")) =>
                                date = now]_vars

\* C23: when the share-sheet accepts the generated file, the file is handed
\* to it and nothing is downloaded; otherwise the file is downloaded and the
\* WhatsApp or e-mail link is set to open exactly for those two channels.
ShareWhenAvailable ==
    [][pcExport.at = "rasterizing" =>
          \A canShare \in BOOLEAN :
              RasterDone(canShare) =>
                  IF canShare
                  THEN /\ effects' = { Effect("share", pcExport.channel) }
                       /\ download' = NoDownload
                       /\ linkTimers' = linkTimers
                  ELSE /\ effects' = {}
                       /\ download' = ReportFile(pcExport.format)
                       /\ linkTimers' = IF pcExport.channel \in {"whatsapp", "email"}
                                        THEN Append(linkTimers, pcExport.channel)
                                        ELSE linkTimers]_vars

\* C23, amended: the share-sheet is used when it accepts the file and the
\* channel is not the download-only one; in every other case the file is
\* downloaded, and the link of the channel is set to open exactly for the
\* WhatsApp and e-mail channels; every link that was set is opened, and no
\* other link is.
ShareUnlessDownloadOnly ==
    /\ [][pcExport.at = "rasterizing" =>
             \A canShare \in BOOLEAN :
                 RasterDone(canShare) =>
                     IF canShare /\ pcExport.channel # "download"
                     THEN /\ effects' = { Effect("share", pcExport.channel) }
                          /\ download' = NoDownload
                          /\ linkTimers' = linkTimers
                     ELSE /\ effects' = {}
                          /\ download' = ReportFile(pcExport.format)
                          /\ linkTimers' = IF pcExport.channel \in {"whatsapp", "email"}
                                           THEN Append(linkTimers, pcExport.channel)
                                           ELSE linkTimers]_vars
    /\ [][(\E e \in effects' : e.kind = "open") =>
             /\ Len(linkTimers) > 0
             /\ effects' = { Effect("open", Head(linkTimers)) }
             /\ Head(linkTimers) \in {"whatsapp", "email"}
             /\ download' = NoDownload]_vars
    /\ [](Len(linkTimers) > 0 => <>(\E e \in effects : e.kind = "open"))

ShareUnlessDownloadOnlyWitness ==
    /\ activeChannel = "download"
    /\ download = ReportFile("pdf")
    /\ pcExport = ExportIdle
    /\ Len(linkTimers) = 1

\* C24: generating is true exactly while a call of processAndShare is in
\* flight and every call ends with generating false; a missing element or a
\* rasterization error raises one alert, a rejected share raises none and
\* downloads nothing; no call starts while generating is true.
ExportNeverStuck ==
    /\ [](generating <=> pcExport.at # "idle")
    /\ (generating ~> ~ generating)
    /\ [][(RasterFailed \/ \E format \in Formats : ProcessAndShare(format, FALSE)) =>
             /\ Len(alerts') = 1
             /\ ~ generating'
             /\ download' = NoDownload
             /\ linkTimers' = linkTimers]_vars
    /\ [][(pcExport.at = "sharing" /\ ShareSettled(FALSE)) =>
             /\ alerts' = << >>
             /\ ~ generating'
             /\ download' = NoDownload
             /\ linkTimers' = linkTimers]_vars
    /\ [][(pcExport'.at = "rasterizing" /\ pcExport' # pcExport) => ~ generating]_vars

ExportNeverStuckWitness ==
    /\ showExportMenu
    /\ effects = { Effect("log", "whatsapp") }
    /\ ~ generating
    /\ alerts = << >>

\* C25: when no record passes the selection (the record set is empty, or
\* the selection matches nothing), the filtered set is empty, the four
\* metrics are 0, the four chart series are empty, and the table's ordered
\* set is empty with heatmap bounds 0.
EmptyViewsDefined ==
    Len(filterData(rawData, selectedRegions, selectedCategories)) = 0 =>
        /\ filteredData = << >>
        /\ metricsOf(filteredData) =
              [ totalSales |-> 0, totalQuantity |-> 0, totalProfit |-> 0,
                avgTicket |-> RatInt(0) ]
        /\ categoryData(filteredData, language, conversionFactor) = << >>
        /\ timeData(filteredData, conversionFactor) = << >>
        /\ regionData(filteredData, language, conversionFactor) = << >>
        /\ scatterData(filteredData, language, conversionFactor) = << >>
        /\ sortedData = << >>
        /\ maxSales(sortedData) = 0
        /\ minSales(sortedData) = 0
        /\ maxProfit(sortedData) = 0

EmptyViewsDefinedWitness ==
    /\ Len(rawData) > 0
    /\ Len(selectedRegions) > 0
    /\ Len(selectedCategories) > 0
    /\ filteredData = << >>
    /\ activeTab = "data"
    /\ sortConfig # NoSort

\* the sales of the filtered records of one category, added up
CategorySales(category) ==
    LET OfCategory(r) == r.category = category
    IN  SumField(SelectSeq(filteredData, OfCategory), "sales")

\* the sales of the filtered records of one UTC calendar day, added up
DaySales(day) ==
    LET OfDay(r) == isoDay(r.date) = day
    IN  SumField(SelectSeq(filteredData, OfDay), "sales")

\* C26: the category series has one entry per category of the filtered set,
\* in the order of non-increasing sums, and the day series one entry per
\* calendar day, in the order of strictly increasing days; the value of an
\* entry is the sum of the sales of the records of its category or day (in
\* the display currency).
SeriesGrouped ==
    LET cd   == categoryData(filteredData, language, conversionFactor)
        td   == timeData(filteredData, conversionFactor)
        cats == { filteredData[j].category : j \in 1 .. Len(filteredData) }
        days == { isoDay(filteredData[j].date) : j \in 1 .. Len(filteredData) }
    IN  /\ Len(cd) = Cardinality(cats)
        /\ { cd[i].originalName : i \in 1 .. Len(cd) } = cats
        /\ \A i \in 1 .. Len(cd) :
              cd[i].value = RatMul(RatInt(CategorySales(cd[i].originalName)), conversionFactor)
        /\ \A i \in 1 .. Len(cd) - 1 :
              /\ ~ RatLess(cd[i].value, cd[i + 1].value)
              /\ CategorySales(cd[i].originalName) >= CategorySales(cd[i + 1].originalName)
        /\ Len(td) = Cardinality(days)
        /\ { td[i].date : i \in 1 .. Len(td) } = days
        /\ \A i \in 1 .. Len(td) :
              td[i].sales = RatMul(RatInt(DaySales(td[i].date)), conversionFactor)
        /\ \A i \in 1 .. Len(td) - 1 : td[i].date < td[i + 1].date

SeriesGroupedWitness ==
    LET cd == categoryData(filteredData, language, conversionFactor)
        td == timeData(filteredData, conversionFactor)
    IN  /\ Len(filteredData) = 3
        /\ Len(cd) = 2
        /\ Len(td) = 2
        /\ filteredData[1].category # cd[1].originalName
        /\ currency = "USD"

\* C27: every selected region is the region of a record of the Record Store
\* and every selected category the category of one, so that each selected
\* value has a control that deselects it.
SelectionsVisible ==
    /\ \A i \in 1 .. Len(selectedRegions) :
          selectedRegions[i] \in uniqueValues(rawData, "region")
    /\ \A i \in 1 .. Len(selectedCategories) :
          selectedCategories[i] \in uniqueValues(rawData, "category")

\* C28: loading is true exactly while an initial load or a refresh is
\* pending and processingFile exactly while an upload is; each of them is
\* false again after the load or the upload, succeeded or failed; a refresh
\* starts only while both flags are false and an upload only while
\* processingFile is false.
BusyFlagsClear ==
    /\ [](loading <=> (pcLoad = "pending" \/ pcRefresh = "pending"))
    /\ [](processingFile <=> pcUpload = "parsing")
    /\ ((pcLoad = "pending" \/ pcRefresh = "pending") ~> ~ loading)
    /\ (pcUpload = "parsing" ~> ~ processingFile)
    /\ [][(pcRefresh = "idle" /\ pcRefresh' = "pending") =>
             ~ loading /\ ~ processingFile]_vars
    /\ [][(pcUpload = "idle" /\ pcUpload' = "parsing") => ~ processingFile]_vars

BusyFlagsClearWitness ==
    /\ pcLoad = "done"
    /\ alerts = << "errorFile" >>
    /\ ~ processingFile
    /\ loading
    /\ pcRefresh = "pending"

\* C29: a change of language sets the currency: BRL for 'pt', USD for 'en',
\* and for 'es' the current currency if it is ARS, PYG or UYU and ARS
\* otherwise; it leaves the rate table as it was; choosing a currency leaves
\* the language as it was.
LanguageDrivesCurrency ==
    /\ [][language' # language =>
             /\ currency' = CASE language' = "pt" -> "BRL"
                              [] language' = "en" -> "USD"
                              [] OTHER -> IF currency \in {"ARS", "PYG", "UYU"}
                                          THEN currency ELSE "ARS"
             /\ rates' = rates]_vars
    /\ [][currency' # currency =>
             \A cur \in Currencies :
                 SetCurrency(cur) => language' = language /\ rates' = rates]_vars

LanguageDrivesCurrencyWitness ==
    /\ language = "es"
    /\ currency = "PYG"
    /\ rates # InitialRates

\* x is a number between 0 and 1
InUnitInterval(x) ==
    IsFinite(x) /\ ~ RatLess(x, RatInt(0)) /\ ~ RatLess(RatInt(1), x)

\* C30: for every row the table paints, the sales intensity has a non-zero
\* denominator maxSales - minSales and lies between 0 and 1, and so does the
\* profit intensity, with the denominator maxProfit, of a row whose profit is
\* not negative; the opacities of the two cells are numbers.
HeatmapDefined ==
    gridMounted(activeTab, loading, rawData) =>
        \A i \in 1 .. Len(sortedData) :
            i <= DisplayLimit =>
                LET row == sortedData[i]
                    lo  == minSales(sortedData)
                    hi  == maxSales(sortedData)
                    top == maxProfit(sortedData)
                IN  /\ hi - lo # 0
                    /\ InUnitInterval(salesPercentage(row.sales, lo, hi))
                    /\ IsFinite(getBackgroundColor(row.sales, lo, hi, "positive", theme).opacity)
                    /\ row.profit >= 0 =>
                          /\ top # 0
                          /\ InUnitInterval(profitPercentage(row.profit, top))
                    /\ IsFinite(getBackgroundColor(row.profit, 0, top, "diverging", theme).opacity)

====
